---- MODULE Spec2Model ----
\* NeuroTrack Flask API server (main.py): the HTTP routing layer over the
\* auth service (backend.auth) and the persistence adapter (backend.database).
EXTENDS Integers, Sequences, FiniteSets, TLC

\* ------------------------------------------------------------------ bounds
MaxUsers == 2
MaxClock == 3
MaxPending == 2

\* --------------------------------------------------------------- strings
\* A Python str is a sequence of one-character strings.
IsSpace(c) == c \in {" ", "\t", "\n"}

LowerChar(c) ==
    CASE c = "A" -> "a"
      [] c = "B" -> "b"
      [] c = "D" -> "d"
      [] c = "P" -> "p"
      [] c = "X" -> "x"
      [] OTHER -> c

RECURSIVE LStrip(_)
LStrip(s) == IF Len(s) > 0 /\ IsSpace(Head(s)) THEN LStrip(Tail(s)) ELSE s

RECURSIVE RStrip(_)
RStrip(s) ==
    IF Len(s) > 0 /\ IsSpace(s[Len(s)]) THEN RStrip(SubSeq(s, 1, Len(s) - 1)) ELSE s

strip(s) == RStrip(LStrip(s))

lower(s) == [i \in 1..Len(s) |-> LowerChar(s[i])]

\* A JSON value that is not a string (a number, say): it has no .strip().
NonStr == <<"<number>">>

IsStr(v) == v # NonStr

\* ---------------------------------------------------------------- inputs
EmailARaw == <<" ", "A", "@", "x", " ">>
EmailB == <<"b", "@", "x">>
EmailInputs == {<<>>, EmailARaw, EmailB, NonStr}

Pw1 == <<"S", "e", "c", "r", "e", "t", "1", "2", "3">>
PwShort == <<"w", "r", "o", "n", "g">>

PasswordInputs == {<<>>, Pw1, PwShort}

RolePatient == <<"p", "a", "t", "i", "e", "n", "t">>
RoleDoctor == <<"d", "o", "c", "t", "o", "r">>
RolePhysio == <<"p", "h", "y", "s", "i", "o">>
RoleDoctorRaw == <<" ", "D", "o", "c", "t", "o", "r", " ">>

Roles == {RolePatient, RoleDoctor, RolePhysio}

RoleInputs == {<<>>, RoleDoctorRaw, NonStr}

\* A profile is a mapping, held as a set of <<key, value>> pairs.
ProfileInputs == {{}, {<<"age", <<"3", "0">>>>}}

\* What the request carries where request.get_json() is called.
BodyKinds == {"nojson", "malformed", "empty", "nondict", "dict"}

\* A fault met inside the auth service or the persistence adapter.
Faults == {"none", "storage", "other"}

\* ------------------------------------------------------------------ state
VARIABLES users, nextId, now, pending, req, raised, resp, pre, created

vars == <<users, nextId, now, pending, req, raised, resp, pre, created>>

\* ------------------------------------------------- persistence adapter
\* The stored record of a user; last_login = 0 until the first login.
NoUser == [id |-> 0]

\* The one-way hash of a password, and its verification.
Hash(password) == <<"$hash$">> \o password

verify_password(password, hash) == hash = Hash(password)

\* Unique-email lookup, compared case-insensitively: the set of matches.
find_user_by_email(email) == {u \in users : lower(u.email) = lower(email)}

find_user_by_id(id) == {u \in users : u.id = id}

new_user(e, password, r, profile) ==
    [id |-> nextId, email |-> e, password_hash |-> Hash(password), role |-> r,
     profile |-> profile, created_at |-> now + 1, last_login |-> 0]

\* The user as the auth service returns it: the password hash stripped.
public_user(u) == [k \in DOMAIN u \ {"password_hash"} |-> u[k]]

\* --------------------------------------------------------- exceptions
\* What a call does: it returns (exc = "") or raises exc with a text.
Return(u, store, tick) ==
    [exc |-> "", text |-> "", user |-> u, users |-> store, tick |-> tick]

Raise(kind, text) ==
    [exc |-> kind, text |-> text, user |-> NoUser, users |-> users, tick |-> FALSE]

FaultText == "sqlite3.OperationalError: disk I/O error"

AttributeErrorText == "AttributeError: object has no attribute"

HttpErrorText == "werkzeug.exceptions.HTTPException"

\* An I/O fault surfaces as the storage-fault signal, anything else as is.
RaiseFault(fault) ==
    IF fault = "storage" THEN Raise("DatabaseError", FaultText)
    ELSE Raise("Exception", FaultText)

\* ------------------------------------------------------- auth service
MinPasswordLen == 8

IsPlausibleEmail(e) == \E i \in 2..(Len(e) - 1) : e[i] = "@"

ValidRegistration(e, password, r) ==
    /\ IsPlausibleEmail(e)
    /\ Len(password) >= MinPasswordLen
    /\ r \in Roles

\* register(email, password, role, profile) up to and including the check
\* that the email is not registered yet: "" when the insert is to follow.
register_check(email, password, role, fault) ==
    LET e == lower(strip(email))
        r == lower(strip(role))
    IN  IF ~ValidRegistration(e, password, r)
        THEN Raise("ValidationError", "Invalid registration data")
        ELSE IF fault # "none" THEN RaiseFault(fault)
        ELSE IF find_user_by_email(e) # {}
        THEN Raise("AuthError", "Email already registered")
        ELSE Return(NoUser, users, FALSE)

ClashText == "UNIQUE constraint failed: users.email"

\* Mutant: the insert does not look for the email, the check before it
\* being the only defence.
create_if_absent_unchecked(e, password, r, profile, clash) ==
    LET u == new_user(e, password, r, profile)
    IN  Return(public_user(u), users \cup {u}, TRUE)

\* The adapter's atomic create-if-absent insert; clash is what it raises
\* when the email is present by the time of the insert.
create_if_absent(e, password, r, profile, clash) ==
    IF find_user_by_email(e) # {}
    THEN Raise(clash, IF clash = "AuthError" THEN "Email already registered" ELSE ClashText)
    ELSE LET u == new_user(e, password, r, profile)
         IN  Return(public_user(u), users \cup {u}, TRUE)

register_user(email, password, role, profile, fault) ==
    LET chk == register_check(email, password, role, fault)
    IN  IF chk.exc # "" THEN chk
        ELSE create_if_absent(lower(strip(email)), password, lower(strip(role)),
                              profile, "AuthError")

login_user(identifier, password, fault) ==
    IF Len(identifier) = 0 \/ Len(password) = 0
    THEN Raise("ValidationError", "Identifier and password are required")
    ELSE IF fault # "none" THEN RaiseFault(fault)
    ELSE LET found == find_user_by_email(identifier)
         IN  IF found = {} THEN Raise("AuthError", "Invalid credentials")
             ELSE LET u == CHOOSE x \in found : TRUE
                  IN  IF ~verify_password(password, u.password_hash)
                      THEN Raise("AuthError", "Invalid credentials")
                      ELSE LET v == [u EXCEPT !.last_login = now + 1]
                           IN  Return(public_user(v), (users \ {u}) \cup {v}, TRUE)

\* ------------------------------------------------- HTTP routing layer
\* request.get_json(): None for a body that is not JSON (older Flask) or an
\* HTTP error raised (newer Flask, and always for malformed JSON); else the
\* parsed value, which is falsy, a non-mapping, or a non-empty mapping.
get_json(kind) ==
    CASE kind = "nojson" -> {"none", "httperror"}
      [] kind = "malformed" -> {"httperror"}
      [] kind = "empty" -> {"falsy"}
      [] kind = "nondict" -> {"nondict"}
      [] OTHER -> {"dict"}

Response(status, success, error, message) ==
    [status |-> status, success |-> success, error |-> error, message |-> message,
     hasUser |-> FALSE, user |-> NoUser, hasAvailable |-> FALSE, available |-> FALSE]

handle_validation_error(text) == Response(400, FALSE, "validation_error", text)

handle_auth_error(text) == Response(401, FALSE, "auth_error", text)

\* Mutant: a slug that is not of the documented set.
handle_database_error_slug(text) ==
    Response(500, FALSE, "db_error", "An error occurred while processing your request")

handle_database_error(text) ==
    Response(500, FALSE, "database_error",
             "An error occurred while processing your request")

handle_internal_error(text) ==
    Response(500, FALSE, "internal_error", "An unexpected error occurred")

\* Flask's choice of the error handler for an exception leaving a view.
errorhandler(exc, text) ==
    CASE exc = "ValidationError" -> handle_validation_error(text)
      [] exc = "AuthError" -> handle_auth_error(text)
      [] exc = "DatabaseError" -> handle_database_error(text)
      [] OTHER -> handle_internal_error(text)

\* The statements of api_register inside try, up to the register_user call.
api_register_extract(j, data) ==
    IF j = "httperror" THEN Raise("Exception", HttpErrorText)
    ELSE IF j \in {"none", "falsy"}
    THEN Raise("ValidationError", "Request body is required")
    ELSE IF j = "nondict" \/ ~IsStr(data.email) \/ ~IsStr(data.role)
    THEN Raise("Exception", AttributeErrorText)
    ELSE Return(NoUser, users, FALSE)

api_register_try(j, data, fault) ==
    LET ex == api_register_extract(j, data)
    IN  IF ex.exc # "" THEN ex
        ELSE register_user(strip(data.email), data.password,
                           lower(strip(data.role)), data.profile, fault)

\* Mutant: no catch-all clause, the exception leaves the view as it is.
api_register_except_unwrapped(out) == out

\* Mutant: only ValidationError is re-raised, AuthError is wrapped too.
api_register_except_authwrapped(out) ==
    IF out.exc \in {"", "ValidationError"} THEN out
    ELSE Raise("DatabaseError", "Registration failed")

\* The except clauses of api_register: what leaves the view.
api_register_except(out) ==
    IF out.exc \in {"", "ValidationError", "AuthError"} THEN out
    ELSE Raise("DatabaseError", "Registration failed")

api_register_response(res) ==
    IF res.exc # "" THEN errorhandler(res.exc, res.text)
    ELSE [Response(201, TRUE, "", "Registration successful")
            EXCEPT !.hasUser = TRUE, !.user = res.user]

\* Mutant: the identifier is not stripped.
api_login_try_nostrip(j, data, fault) ==
    IF j = "httperror" THEN Raise("Exception", HttpErrorText)
    ELSE IF j \in {"none", "falsy"}
    THEN Raise("ValidationError", "Request body is required")
    ELSE IF j = "nondict" THEN Raise("Exception", AttributeErrorText)
    ELSE LET identifier ==
                 IF data.identifier # <<>> THEN data.identifier ELSE data.email
         IN  IF ~IsStr(identifier) THEN Raise("Exception", AttributeErrorText)
             ELSE login_user(identifier, data.password, fault)

api_login_try(j, data, fault) ==
    IF j = "httperror" THEN Raise("Exception", HttpErrorText)
    ELSE IF j \in {"none", "falsy"}
    THEN Raise("ValidationError", "Request body is required")
    ELSE IF j = "nondict" THEN Raise("Exception", AttributeErrorText)
    ELSE LET identifier ==
                 IF data.identifier # <<>> THEN data.identifier ELSE data.email
         IN  IF ~IsStr(identifier) THEN Raise("Exception", AttributeErrorText)
             ELSE login_user(strip(identifier), data.password, fault)

api_login_except(out) ==
    IF out.exc \in {"", "ValidationError", "AuthError"} THEN out
    ELSE Raise("DatabaseError", "Login failed")

api_login_response(res) ==
    IF res.exc # "" THEN errorhandler(res.exc, res.text)
    ELSE [Response(200, TRUE, "", "Login successful")
            EXCEPT !.hasUser = TRUE, !.user = res.user]

api_check_email_try(j, data, fault) ==
    IF j = "httperror" THEN Raise("Exception", HttpErrorText)
    ELSE IF j \in {"none", "falsy"}
    THEN Raise("ValidationError", "Request body is required")
    ELSE IF j = "nondict" \/ ~IsStr(data.email)
    THEN Raise("Exception", AttributeErrorText)
    ELSE IF fault # "none" THEN RaiseFault(fault)
    ELSE Return(NoUser, users, FALSE)

\* Mutant: the typed signals are re-raised to the error handlers.
api_check_email_response_reraise(out, data) ==
    IF out.exc \in {"ValidationError", "AuthError"} THEN errorhandler(out.exc, out.text)
    ELSE IF out.exc # ""
    THEN Response(500, FALSE, "check_failed", "Could not check email availability")
    ELSE [Response(200, TRUE, "", "")
            EXCEPT !.hasAvailable = TRUE,
                   !.available = (find_user_by_email(strip(data.email)) = {})]

\* Mutant: the email is looked up as sent, not stripped.
api_check_email_response_nostrip(out, data) ==
    IF out.exc # ""
    THEN Response(500, FALSE, "check_failed", "Could not check email availability")
    ELSE [Response(200, TRUE, "", "")
            EXCEPT !.hasAvailable = TRUE,
                   !.available = (find_user_by_email(data.email) = {})]

api_check_email_response(out, data) ==
    IF out.exc # ""
    THEN Response(500, FALSE, "check_failed", "Could not check email availability")
    ELSE [Response(200, TRUE, "", "")
            EXCEPT !.hasAvailable = TRUE,
                   !.available = (find_user_by_email(strip(data.email)) = {})]

\* Mutant: the record is returned as stored.
response_user_unfiltered(user) == user

\* The dict comprehension of api_get_profile.
response_user(user) == [k \in DOMAIN user \ {"password_hash"} |-> user[k]]

api_get_profile_try(user_id, fault) ==
    IF fault # "none" THEN RaiseFault(fault) ELSE Return(NoUser, users, FALSE)

\* Mutant: no test for a missing user, whose use then fails in the try.
api_get_profile_response_nocheck(out, user_id) ==
    IF out.exc # "" \/ find_user_by_id(user_id) = {}
    THEN Response(500, FALSE, "fetch_failed", "Could not retrieve profile")
    ELSE [Response(200, TRUE, "", "")
            EXCEPT !.hasUser = TRUE,
                   !.user = response_user(CHOOSE u \in find_user_by_id(user_id) : TRUE)]

api_get_profile_response(out, user_id) ==
    IF out.exc # ""
    THEN Response(500, FALSE, "fetch_failed", "Could not retrieve profile")
    ELSE IF find_user_by_id(user_id) = {}
    THEN Response(404, FALSE, "not_found", "User not found")
    ELSE [Response(200, TRUE, "", "")
            EXCEPT !.hasUser = TRUE,
                   !.user = response_user(CHOOSE u \in find_user_by_id(user_id) : TRUE)]

\* ------------------------------------------------------------ requests
Request(endpoint, kind, j, fault) ==
    [endpoint |-> endpoint, kind |-> kind, json |-> j, fault |-> fault,
     email |-> <<>>, identifier |-> <<>>, password |-> <<>>, role |-> <<>>,
     profile |-> {}, id |-> 0, slot |-> 0]

\* The fields a JSON object can carry under the keys an endpoint reads; a
\* key that is absent reads as its default ('' or {}).
Fields(kind, keys) ==
    [email : IF kind = "dict" /\ "email" \in keys THEN EmailInputs ELSE {<<>>},
     identifier : IF kind = "dict" /\ "identifier" \in keys THEN EmailInputs ELSE {<<>>},
     password : IF kind = "dict" /\ "password" \in keys THEN PasswordInputs ELSE {<<>>},
     role : IF kind = "dict" /\ "role" \in keys THEN RoleInputs ELSE {<<>>},
     profile : IF kind = "dict" /\ "profile" \in keys THEN ProfileInputs ELSE {{}}]

NoException == [exc |-> "", text |-> ""]

Init ==
    /\ users = {}
    /\ nextId = 1
    /\ now = 0
    /\ pending = {}
    /\ req = Request("none", "dict", "dict", "none")
    /\ raised = NoException
    /\ resp = Response(0, TRUE, "", "")
    /\ pre = {}
    /\ created = <<>>

\* The store and the clock after a call of the auth service.
Commit(out) ==
    /\ out.tick => now < MaxClock
    /\ Cardinality(out.users) <= MaxUsers
    /\ pre' = users
    /\ users' = out.users
    /\ nextId' = IF Cardinality(out.users) > Cardinality(users) THEN nextId + 1 ELSE nextId
    /\ now' = IF out.tick THEN now + 1 ELSE now
    /\ raised' = [exc |-> out.exc, text |-> out.text]

\* The emails whose registration was answered 201, in order of the answers.
Created(email) ==
    created' = IF resp'.status = 201 THEN Append(created, lower(strip(email)))
               ELSE created

\* POST /api/auth/register, handled to completion.
api_register ==
    \E kind \in BodyKinds, fault \in Faults :
      \E j \in get_json(kind), f \in Fields(kind, {"email", "password", "role", "profile"}) :
        LET data == [Request("register", kind, j, fault)
                       EXCEPT !.email = f.email, !.password = f.password,
                              !.role = f.role, !.profile = f.profile]
            out == api_register_try(j, data, fault)
            res == api_register_except(out)
        IN  /\ pending = {}
            /\ fault # "none" => out.text = FaultText
            /\ Commit(out)
            /\ req' = data
            /\ resp' = api_register_response(res)
            /\ Created(data.email)
            /\ UNCHANGED pending

\* POST /api/auth/login, handled to completion.
api_login ==
    \E kind \in BodyKinds, fault \in Faults :
      \E j \in get_json(kind), f \in Fields(kind, {"identifier", "email", "password"}) :
        LET data == [Request("login", kind, j, fault)
                       EXCEPT !.identifier = f.identifier, !.email = f.email,
                              !.password = f.password]
            out == api_login_try(j, data, fault)
            res == api_login_except(out)
        IN  /\ pending = {}
            /\ f.identifier # <<>> => f.email = <<>>
            /\ fault # "none" => out.text = FaultText
            /\ Commit(out)
            /\ req' = data
            /\ resp' = api_login_response(res)
            /\ UNCHANGED <<pending, created>>

\* POST /api/auth/check-email, handled to completion.
api_check_email ==
    \E kind \in BodyKinds, fault \in Faults :
      \E j \in get_json(kind), f \in Fields(kind, {"email"}) :
        LET data == [Request("check-email", kind, j, fault) EXCEPT !.email = f.email]
            out == api_check_email_try(j, data, fault)
        IN  /\ kind # "dict" => data = Request("check-email", kind, j, fault)
            /\ fault # "none" => out.text = FaultText
            /\ Commit(out)
            /\ req' = data
            /\ resp' = api_check_email_response(out, data)
            /\ UNCHANGED <<pending, created>>

\* GET /api/users/profile/<int:user_id>, handled to completion.
api_get_profile ==
    \E user_id \in 0..(MaxUsers + 1), fault \in Faults :
        LET data == [Request("profile", "dict", "dict", fault) EXCEPT !.id = user_id]
            out == api_get_profile_try(user_id, fault)
        IN  /\ Commit(out)
            /\ req' = data
            /\ resp' = api_get_profile_response(out, user_id)
            /\ UNCHANGED <<pending, created>>

\* The registrations sent concurrently: well-formed but for an empty email.
ConcurrentFields ==
    [email : {<<>>, EmailARaw, EmailB}, password : {Pw1}, role : {RoleDoctorRaw},
     profile : ProfileInputs]

\* Concurrent registrations: a request runs up to the auth service's check
\* that the email is free, and is then in flight until its insert.
register_begin ==
    \E kind \in {"dict"}, fault \in Faults, slot \in 1..MaxPending :
      \E j \in get_json(kind), f \in ConcurrentFields :
        LET data == [Request("register", kind, j, fault)
                       EXCEPT !.email = f.email, !.password = f.password,
                              !.role = f.role, !.profile = f.profile, !.slot = slot]
            ex == api_register_extract(j, data)
            out == IF ex.exc # "" THEN ex
                   ELSE register_check(strip(data.email), data.password,
                                       lower(strip(data.role)), fault)
            res == api_register_except(out)
        IN  /\ \A p \in pending : p.slot # slot
            /\ fault # "none" => out.text = FaultText
            /\ IF out.exc = ""
               THEN /\ pending' = pending \cup {data}
                    /\ UNCHANGED <<users, nextId, now, req, raised, resp, pre, created>>
               ELSE /\ Commit(out)
                    /\ req' = data
                    /\ resp' = api_register_response(res)
                    /\ UNCHANGED <<pending, created>>

register_commit ==
    \E data \in pending, clash \in {"AuthError", "DatabaseError"} :
        LET e == lower(strip(data.email))
            out == create_if_absent(e, data.password, lower(strip(data.role)),
                                    data.profile, clash)
            res == api_register_except(out)
        IN  /\ Commit(out)
            /\ clash = "DatabaseError" => out.exc # ""
            /\ pending' = pending \ {data}
            /\ req' = data
            /\ resp' = api_register_response(res)
            /\ Created(data.email)

NextConc == register_begin \/ register_commit

SpecConc == Init /\ [][NextConc]_vars

Next == api_check_email \/ api_register \/ api_login \/ api_get_profile

Spec == Init /\ [][Next]_vars

\* ------------------------------------------------------------ properties
Normalized(email) == lower(strip(email))

\* The request carried a JSON value that is not empty.
NonEmptyJson == req.json \in {"dict", "nondict"}

GenericMessage == "An error occurred while processing your request"

\* C1: on register and login, for a non-empty JSON body, a validation signal
\* is answered 400 validation_error, an authentication signal 401 auth_error,
\* and a storage fault or any other exception 500 database_error with the
\* fixed message, which is not the text of the exception that was raised.
C1_SignalMapping ==
    (req.endpoint \in {"register", "login"} /\ NonEmptyJson) =>
        /\ raised.exc = "ValidationError" =>
             resp.status = 400 /\ resp.error = "validation_error"
        /\ raised.exc = "AuthError" =>
             resp.status = 401 /\ resp.error = "auth_error"
        /\ raised.exc \in {"DatabaseError", "Exception"} =>
             /\ resp.status = 500
             /\ resp.error = "database_error"
             /\ resp.message = GenericMessage
             /\ resp.message # raised.text
        /\ raised.exc = "" => resp.status \in {200, 201}

C1_Witness ==
    /\ req.endpoint = "register"
    /\ req.json = "dict"
    /\ raised.exc = "Exception"
    /\ raised.text = FaultText
    /\ resp.error = "database_error"

\* C2: on register, login and check-email a body that is missing, not JSON
\* or empty fails with the validation signal "Request body is required" and
\* is answered 400 validation_error.
C2_BodyRequired ==
    (req.endpoint \in {"register", "login", "check-email"}
       /\ req.kind \in {"nojson", "malformed", "empty"}) =>
        /\ raised.exc = "ValidationError"
        /\ raised.text = "Request body is required"
        /\ resp.status = 400
        /\ resp.error = "validation_error"

\* C3: check-email answers 200 with success and an availability flag, or 500
\* check_failed with the fixed message, and nothing else, whatever the fault.
C3_CheckEmailStatus ==
    req.endpoint = "check-email" =>
        \/ resp.status = 200 /\ resp.success /\ resp.hasAvailable
        \/ /\ resp.status = 500
           /\ ~resp.success
           /\ resp.error = "check_failed"
           /\ resp.message = "Could not check email availability"

C3_Witness ==
    /\ req.endpoint = "check-email"
    /\ raised.exc = "ValidationError"
    /\ resp.status = 500

\* The values a client reads in a user object, the numbers left aside.
TextFields(u) == DOMAIN u \ {"id", "created_at", "last_login", "profile"}

CarriesHash(u, hash) ==
    \/ \E k \in TextFields(u) : u[k] = hash
    \/ \E entry \in u.profile : entry[2] = hash

\* C4: no user object in a response of register, login or profile has a
\* password field, nor holds the stored password hash of any user.
C4_NoPasswordHash ==
    resp.hasUser =>
        /\ "password_hash" \notin DOMAIN resp.user
        /\ \A u \in users : ~CarriesHash(resp.user, u.password_hash)

C4_Witness ==
    /\ req.endpoint = "profile"
    /\ resp.status = 200
    /\ resp.hasUser
    /\ \E u \in users : u.id = resp.user.id /\ "password_hash" \in DOMAIN u

Registered(email) == \E i \in 1..Len(created) : created[i] = Normalized(email)

\* C5: a check-email call leaves the store alone, answers when nothing
\* fails, and reports the address available exactly as long as no
\* registration for it was answered 201.
C5_Availability ==
    req.endpoint = "check-email" =>
        /\ users = pre
        /\ (req.json = "dict" /\ IsStr(req.email) /\ req.fault = "none") =>
             resp.hasAvailable
        /\ resp.hasAvailable => (resp.available = ~Registered(req.email))

C5_Witness ==
    /\ req.endpoint = "check-email"
    /\ resp.hasAvailable
    /\ ~resp.available
    /\ req.email = EmailARaw

EmailTaken == IsStr(req.email) /\ \E u \in pre : lower(u.email) = Normalized(req.email)

LoginIdentifier == IF req.identifier # <<>> THEN req.identifier ELSE req.email

\* The stored users the credentials of the login request are correct for.
Authenticated ==
    IF req.json = "dict" /\ IsStr(LoginIdentifier) /\ Len(req.password) > 0
    THEN {u \in pre : /\ lower(u.email) = Normalized(LoginIdentifier)
                      /\ verify_password(req.password, u.password_hash)}
    ELSE {}

\* C7: a login with a correct identifier/password pair returns a last-login
\* later than the one stored before and makes exactly one update, that of
\* this user's last-login; a login that fails changes nothing in the store.
C7_LoginFrame ==
    req.endpoint = "login" =>
        /\ (Authenticated # {} /\ req.fault = "none") => resp.status = 200
        /\ resp.status = 200 =>
             \E u \in Authenticated :
                /\ resp.user.id = u.id
                /\ resp.user.last_login > u.last_login
                /\ users = (pre \ {u}) \cup {[u EXCEPT !.last_login = resp.user.last_login]}
        /\ resp.status # 200 => users = pre

C7_Witness ==
    /\ req.endpoint = "login"
    /\ resp.status = 200
    /\ req.identifier = EmailARaw
    /\ \E u \in pre : u.id = resp.user.id /\ u.last_login > 0

\* C8: under any interleaving of registrations no two stored users have the
\* same normalized email, and no email is answered 201 twice.
C8_UniqueEmail ==
    /\ \A u, v \in users : lower(u.email) = lower(v.email) => u = v
    /\ \A i, k \in 1..Len(created) : created[i] = created[k] => i = k

C8_Witness ==
    /\ req.endpoint = "register"
    /\ raised.text = ClashText
    /\ resp.status = 500
    /\ Registered(req.email)
    /\ users = pre

\* C9: the profile handler answers 404 not_found when no user has the id,
\* 200 with that user's record when one has, 500 fetch_failed with a fixed
\* message when the lookup fails, and never changes the store.
C9_ProfileStatus ==
    req.endpoint = "profile" =>
        /\ users = pre
        /\ IF req.fault # "none"
           THEN /\ resp.status = 500
                /\ resp.error = "fetch_failed"
                /\ resp.message = "Could not retrieve profile"
           ELSE IF \A u \in pre : u.id # req.id
           THEN resp.status = 404 /\ resp.error = "not_found" /\ ~resp.hasUser
           ELSE /\ resp.status = 200
                /\ resp.hasUser
                /\ \E u \in pre :
                      /\ u.id = req.id
                      /\ \A k \in DOMAIN resp.user : resp.user[k] = u[k]
                      /\ DOMAIN u \ DOMAIN resp.user = {"password_hash"}

C9_Witness ==
    /\ req.endpoint = "profile"
    /\ resp.status = 404
    /\ users # {}

ErrorSlugs ==
    {"validation_error", "auth_error", "database_error", "internal_error",
     "not_found", "check_failed", "fetch_failed"}

\* C10: a failure response has success = false, a message and an error slug
\* of the closed set; a success response has success = true and no slug.
C10_Envelope ==
    resp.status # 0 =>
        IF resp.status \in {200, 201}
        THEN resp.success /\ resp.error = ""
        ELSE /\ ~resp.success
             /\ resp.error \in ErrorSlugs
             /\ resp.message # ""

C10_Witness ==
    /\ ~resp.success
    /\ resp.error = "fetch_failed"
    /\ resp.message # ""

TypeOK == resp.status \in {0, 200, 201, 400, 401, 404, 500}

====
